---- MODULE Spec2Model ----
(***************************************************************************)
(* Model of src/app.py, the Streamlit "shopping mission" application.      *)
(*                                                                         *)
(* The session fields of st.session_state are the variables step, mission, *)
(* budget, cart, submitted and reasons.  One action is one run of the      *)
(* script (main) triggered by one user interaction; `view` records what    *)
(* the run rendered, that is, which controls the user can press next.  A   *)
(* handler that ends in st.rerun() leaves view.page = "rerun": the only    *)
(* step possible then is the rerun itself.                                 *)
(*                                                                         *)
(* Spec       the application, from the state init_state builds.           *)
(* SpecManip  the same handlers started from any well-typed session state  *)
(*            (the "direct state manipulation" result_page and main guard  *)
(*            against); it is what exercises the guard branches.           *)
(* SpecCart   add_to_cart / cart_total as pure functions over call lists.  *)
(* SpecPrice  _parse_price as a pure function over price cells.            *)
(***************************************************************************)
EXTENDS Integers, Sequences, FiniteSets, TLC

VARIABLES step, mission, budget, cart, submitted, reasons,
          view, ev, footer, calls, pin, pout, pdone

vars == <<step, mission, budget, cart, submitted, reasons,
          view, ev, footer, calls, pin, pout, pdone>>

session == <<step, mission, budget, cart, submitted, reasons>>

(* ----------------------------- bounds ---------------------------------- *)

\* largest accumulated quantity of one cart entry the model explores
MaxQty == 3
\* largest value typed into a quantity input in the model (the widget allows 0..99)
MaxInput == 2
\* longest list of add_to_cart calls in SpecCart
MaxCalls == 3
\* longest price-cell string in SpecPrice
MaxLen == 3

(* ----------------------------- data ------------------------------------ *)

None == "None"

\* MISSIONS: mission title -> budget (titles abbreviated)
MISSIONS == [curry |-> 20000, camping |-> 30000, party |-> 25000]

\* the frame load_products returns: rows of (name, price, image url).  Two
\* rows share a name with different prices, and one price cell parsed to 0.
Catalog ==
  << [name |-> "A", price |-> 9000,  img_url |-> "a1"],
     [name |-> "B", price |-> 12000, img_url |-> "b"],
     [name |-> "A", price |-> 15000, img_url |-> "a2"],
     [name |-> "Z", price |-> 0,     img_url |-> "z"] >>

\* texts typed into the reasoning text area, as character sequences
Texts == { <<>>, <<" ">>, <<"r">> }

(* ----------------------------- strings --------------------------------- *)

RECURSIVE LStrip(_)
LStrip(s) == IF s # <<>> /\ Head(s) = " " THEN LStrip(Tail(s)) ELSE s

RECURSIVE RStrip(_)
RStrip(s) ==
  IF s # <<>> /\ s[Len(s)] = " " THEN RStrip(SubSeq(s, 1, Len(s) - 1)) ELSE s

\* str.strip()
Strip(s) == RStrip(LStrip(s))

(* ----------------------------- cart ------------------------------------ *)

EmptyCart == [n \in {} |-> 0]

\* mutant: the quantity guard lets a zero quantity through
add_to_cart_ZeroAdds(c, name, price, img_url, qty) ==
  IF qty < 0 THEN c
  ELSE IF name \in DOMAIN c
       THEN [c EXCEPT ![name].qty = @ + qty]
       ELSE [n \in DOMAIN c \cup {name} |->
               IF n = name
               THEN [price |-> price, img_url |-> img_url, qty |-> qty]
               ELSE c[n]]

\* mutant: a repeated add overwrites the entry instead of accumulating
add_to_cart_Overwrite(c, name, price, img_url, qty) ==
  IF qty <= 0 THEN c
  ELSE [n \in DOMAIN c \cup {name} |->
          IF n = name
          THEN [price |-> price, img_url |-> img_url, qty |-> qty]
          ELSE c[n]]

add_to_cart(c, name, price, img_url, qty) ==
  IF qty <= 0 THEN c
  ELSE IF name \in DOMAIN c
       THEN [c EXCEPT ![name].qty = @ + qty]
       ELSE [n \in DOMAIN c \cup {name} |->
               IF n = name
               THEN [price |-> price, img_url |-> img_url, qty |-> qty]
               ELSE c[n]]

RECURSIVE SumEntries(_, _)
SumEntries(c, S) ==
  IF S = {} THEN 0
  ELSE LET n == CHOOSE x \in S : TRUE
       IN c[n].price * c[n].qty + SumEntries(c, S \ {n})

cart_total(c) == SumEntries(c, DOMAIN c)

clear_cart == EmptyCart

(* ----------------------------- pages ----------------------------------- *)

PlainView(p) ==
  [page |-> p, submitDisabled |-> FALSE, overNotice |-> FALSE, pngButton |-> FALSE]

start_page_view == PlainView("start")

\* mutant: the submit control is disabled only when over budget
shop_page_view_OverOnly(c, b) ==
  LET total == cart_total(c)
      remain == b - total
      over_budget == remain < 0
  IN [page |-> "shop",
      submitDisabled |-> over_budget,
      overNotice |-> over_budget,
      pngButton |-> FALSE]

\* what shop_page renders below the product grid
shop_page_view(c, b) ==
  LET total == cart_total(c)
      remain == b - total
      over_budget == remain < 0
  IN [page |-> "shop",
      submitDisabled |-> (over_budget \/ total <= 0),
      overNotice |-> over_budget,
      pngButton |-> FALSE]

\* mutant: the empty-cart guard is missing
result_page_view_NoEmptyGuard(sub, c, r) ==
  IF ~sub THEN PlainView("result_unsubmitted")
  ELSE [page |-> "result", submitDisabled |-> FALSE, overNotice |-> FALSE,
        pngButton |-> (Strip(r) # <<>>)]

\* what result_page renders: its two guards, then the content
result_page_view(sub, c, r) ==
  IF ~sub THEN PlainView("result_unsubmitted")
  ELSE IF DOMAIN c = {} THEN PlainView("result_empty")
  ELSE [page |-> "result", submitDisabled |-> FALSE, overNotice |-> FALSE,
        pngButton |-> (Strip(r) # <<>>)]

\* the value of step after main's dispatch
main_step(st, m) ==
  IF st = "start" THEN "start"
  ELSE IF st = "shop" THEN (IF m = None THEN "start" ELSE "shop")
  ELSE IF st = "result" THEN "result"
  ELSE "start"

\* the page main's dispatch renders
main_view(st, m, b, c, sub, r) ==
  IF main_step(st, m) = "start" THEN start_page_view
  ELSE IF main_step(st, m) = "shop" THEN shop_page_view(c, b)
  ELSE result_page_view(sub, c, r)

\* colour of the remaining-balance text in make_result_image's footer
footer_colour(total, b) ==
  LET remain == b - total IN IF remain >= 0 THEN "green" ELSE "red"

(* ----------------------------- actions --------------------------------- *)

\* ev names the handler that ran last (and the mission a pick chose)
Ev(op) == [op |-> op, arg |-> ""]

aux == <<calls, pin, pout, pdone>>

\* a run with no live button pressed: first load, a quantity input edited,
\* a button of a stale page, or the run st.rerun() asked for
Rerun ==
  /\ step' = main_step(step, mission)
  /\ view' = main_view(step, mission, budget, cart, submitted, reasons)
  /\ ev' = Ev("rerun")
  /\ UNCHANGED <<mission, budget, cart, submitted, reasons, footer, aux>>

\* mutant: the pick leaves the reasoning text of the previous round
Pick_KeepReasons(m) ==
  /\ view.page = "start"
  /\ main_step(step, mission) = "start"
  /\ mission' = m
  /\ budget' = MISSIONS[m]
  /\ cart' = EmptyCart
  /\ submitted' = FALSE
  /\ step' = "shop"
  /\ view' = start_page_view
  /\ ev' = [op |-> "pick", arg |-> m]
  /\ UNCHANGED <<reasons, footer, aux>>

\* start_page: a mission button pressed (no st.rerun follows)
Pick(m) ==
  /\ view.page = "start"
  /\ main_step(step, mission) = "start"
  /\ mission' = m
  /\ budget' = MISSIONS[m]
  /\ cart' = EmptyCart
  /\ submitted' = FALSE
  /\ reasons' = <<>>
  /\ step' = "shop"
  /\ view' = start_page_view
  /\ ev' = [op |-> "pick", arg |-> m]
  /\ UNCHANGED <<footer, aux>>

\* shop_page: the add button of catalog row i pressed with qty in its input
Add(i, qty) ==
  /\ view.page = "shop"
  /\ main_step(step, mission) = "shop"
  /\ LET row == Catalog[i]
         c2 == add_to_cart(cart, row.name, row.price, row.img_url, qty)
     IN /\ \A n \in DOMAIN c2 : c2[n].qty <= MaxQty
        /\ cart' = c2
        /\ view' = shop_page_view(c2, budget)
  /\ ev' = Ev("add")
  /\ UNCHANGED <<step, mission, budget, submitted, reasons, footer, aux>>

\* shop_page: the clear-cart button
Clear ==
  /\ view.page = "shop"
  /\ main_step(step, mission) = "shop"
  /\ cart' = clear_cart
  /\ view' = PlainView("rerun")
  /\ ev' = Ev("clear")
  /\ UNCHANGED <<step, mission, budget, submitted, reasons, footer, aux>>

\* mutant: the submit button is never disabled
Submit_Unguarded ==
  /\ view.page = "shop"
  /\ main_step(step, mission) = "shop"
  /\ submitted' = TRUE
  /\ step' = "result"
  /\ view' = PlainView("rerun")
  /\ ev' = Ev("submit")
  /\ UNCHANGED <<mission, budget, cart, reasons, footer, aux>>

\* shop_page: the submit button, which can be pressed only when enabled
Submit ==
  /\ view.page = "shop"
  /\ main_step(step, mission) = "shop"
  /\ ~view.submitDisabled
  /\ submitted' = TRUE
  /\ step' = "result"
  /\ view' = PlainView("rerun")
  /\ ev' = Ev("submit")
  /\ UNCHANGED <<mission, budget, cart, reasons, footer, aux>>

\* result_page: the reasoning text area edited
EditReasons(t) ==
  /\ view.page = "result"
  /\ main_step(step, mission) = "result"
  /\ t # reasons
  /\ reasons' = t
  /\ view' = result_page_view(submitted, cart, t)
  /\ ev' = Ev("edit")
  /\ UNCHANGED <<step, mission, budget, cart, submitted, footer, aux>>

\* result_page: the PNG button, shown once the reasoning is not blank
Png ==
  /\ view.page = "result"
  /\ main_step(step, mission) = "result"
  /\ view.pngButton
  /\ footer' = footer_colour(cart_total(cart), budget)
  /\ ev' = Ev("png")
  /\ UNCHANGED <<session, view, aux>>

\* mutant: the restart forgets to empty the cart
Restart_KeepCart ==
  /\ view.page = "result"
  /\ main_step(step, mission) = "result"
  /\ step' = "start"
  /\ submitted' = FALSE
  /\ view' = PlainView("rerun")
  /\ ev' = Ev("restart")
  /\ UNCHANGED <<mission, budget, cart, reasons, footer, aux>>

\* result_page: the restart button
Restart ==
  /\ view.page = "result"
  /\ main_step(step, mission) = "result"
  /\ step' = "start"
  /\ cart' = EmptyCart
  /\ submitted' = FALSE
  /\ view' = PlainView("rerun")
  /\ ev' = Ev("restart")
  /\ UNCHANGED <<mission, budget, reasons, footer, aux>>

\* result_page, submitted unset: the back button
BackUnsubmitted ==
  /\ view.page = "result_unsubmitted"
  /\ main_step(step, mission) = "result"
  /\ ~submitted
  /\ step' = (IF mission # None THEN "shop" ELSE "start")
  /\ view' = PlainView("rerun")
  /\ ev' = Ev("back_unsubmitted")
  /\ UNCHANGED <<mission, budget, cart, submitted, reasons, footer, aux>>

\* mutant: the empty-cart back button returns to the selection step
BackEmpty_ToStart ==
  /\ view.page = "result_empty"
  /\ main_step(step, mission) = "result"
  /\ submitted
  /\ DOMAIN cart = {}
  /\ step' = "start"
  /\ view' = PlainView("rerun")
  /\ ev' = Ev("back_empty")
  /\ UNCHANGED <<mission, budget, cart, submitted, reasons, footer, aux>>

\* result_page, submitted set and cart empty: the back button
BackEmpty ==
  /\ view.page = "result_empty"
  /\ main_step(step, mission) = "result"
  /\ submitted
  /\ DOMAIN cart = {}
  /\ step' = "shop"
  /\ view' = PlainView("rerun")
  /\ ev' = Ev("back_empty")
  /\ UNCHANGED <<mission, budget, cart, submitted, reasons, footer, aux>>

(* ----------------------------- Spec ------------------------------------ *)

AuxInit ==
  /\ calls = <<>>
  /\ pin = [kind |-> "na", val |-> 0, s |-> <<>>]
  /\ pout = 0
  /\ pdone = FALSE

\* init_state on a fresh session, before the first dispatch
init_state ==
  /\ step = "start"
  /\ mission = None
  /\ budget = 0
  /\ cart = EmptyCart
  /\ submitted = FALSE
  /\ reasons = <<>>

Init ==
  /\ init_state
  /\ view = PlainView("rerun")
  /\ ev = Ev("init")
  /\ footer = "none"
  /\ AuxInit

Next ==
  \/ Rerun
  \/ \E m \in DOMAIN MISSIONS : Pick(m)
  \/ \E i \in DOMAIN Catalog, qty \in 0..MaxInput : Add(i, qty)
  \/ Clear
  \/ Submit
  \/ \E t \in Texts : EditReasons(t)
  \/ Png
  \/ Restart

Spec == Init /\ [][Next]_vars

(* ----------------------------- SpecManip ------------------------------- *)

Budgets == {0} \cup {MISSIONS[m] : m \in DOMAIN MISSIONS}

\* the empty cart and the carts holding one catalog row once
ManipCarts ==
  {EmptyCart} \cup
  {add_to_cart(EmptyCart, Catalog[i].name, Catalog[i].price, Catalog[i].img_url, 1) :
     i \in DOMAIN Catalog}

\* a session whose fields were set from outside the handlers; init_state
\* keeps every field that is already present
InitManip ==
  /\ step \in {"start", "shop", "result"}
  /\ mission \in {None} \cup DOMAIN MISSIONS
  /\ budget \in Budgets
  /\ cart \in ManipCarts
  /\ submitted \in BOOLEAN
  /\ reasons \in Texts
  /\ view = PlainView("rerun")
  /\ ev = Ev("init")
  /\ footer = "none"
  /\ AuxInit

NextManip ==
  \/ Next
  \/ BackUnsubmitted
  \/ BackEmpty

SpecManip == InitManip /\ [][NextManip]_vars

(* ----------------------------- SpecCart -------------------------------- *)

\* add_to_cart called on the session's cart, the call appended to calls
AddCall(name, price, img_url, qty) ==
  /\ Len(calls) < MaxCalls
  /\ cart' = add_to_cart(cart, name, price, img_url, qty)
  /\ calls' = Append(calls, [name |-> name, price |-> price,
                             img_url |-> img_url, qty |-> qty])
  /\ ev' = Ev("add_to_cart")
  /\ UNCHANGED <<step, mission, budget, submitted, reasons, view, footer,
                 pin, pout, pdone>>

InitCart ==
  /\ init_state
  /\ view = PlainView("cart")
  /\ ev = Ev("init")
  /\ footer = "none"
  /\ AuxInit

NextCart ==
  \E i \in DOMAIN Catalog, qty \in -1..MaxInput :
    AddCall(Catalog[i].name, Catalog[i].price, Catalog[i].img_url, qty)

SpecCart == InitCart /\ [][NextCart]_vars

(* ----------------------------- SpecPrice ------------------------------- *)

\* characters of a price cell: "w" stands for the won suffix the code
\* removes, "$" for any other currency symbol
Digits == {"0", "1", "2"}
Alphabet == Digits \cup {",", "w", " ", "$", ".", "-"}

DigitVal(ch) == CASE ch = "0" -> 0 [] ch = "1" -> 1 [] ch = "2" -> 2

\* str.replace(ch, "")
RECURSIVE Remove(_, _)
Remove(s, ch) ==
  IF s = <<>> THEN <<>>
  ELSE IF Head(s) = ch THEN Remove(Tail(s), ch)
  ELSE <<Head(s)>> \o Remove(Tail(s), ch)

Count(s, ch) == Cardinality({i \in 1..Len(s) : s[i] = ch})

Unsigned(s) == IF s # <<>> /\ Head(s) = "-" THEN Tail(s) ELSE s

\* float(s) accepts s: an optional sign, then digits with at most one point
\* (the literals the alphabet can spell; exponents, inf and nan need letters)
IsFloat(s) ==
  LET b == Unsigned(s)
  IN /\ \A i \in 1..Len(b) : b[i] \in Digits \cup {"."}
     /\ Count(b, ".") <= 1
     /\ \E i \in 1..Len(b) : b[i] \in Digits

RECURSIVE DecValue(_)
DecValue(s) ==
  IF s = <<>> THEN 0
  ELSE 10 * DecValue(SubSeq(s, 1, Len(s) - 1)) + DigitVal(s[Len(s)])

\* int(float(s)): the integer part, truncated toward zero
IntOfFloat(s) ==
  LET b == Unsigned(s)
      dot == {i \in 1..Len(b) : b[i] = "."}
      ip == IF dot = {} THEN b ELSE SubSeq(b, 1, (CHOOSE i \in dot : TRUE) - 1)
  IN IF b = s THEN DecValue(ip) ELSE 0 - DecValue(ip)

\* mutant: the thousands separators are not removed
parse_price_KeepCommas(v) ==
  IF v.kind = "na" THEN 0
  ELSE IF v.kind = "num" THEN v.val
  ELSE LET s == Strip(Remove(v.s, "w"))
       IN IF IsFloat(s) THEN IntOfFloat(s) ELSE 0

\* a price cell: missing (NaN), a number (int(v); whole numbers here), or a string
parse_price(v) ==
  IF v.kind = "na" THEN 0
  ELSE IF v.kind = "num" THEN v.val
  ELSE LET s == Strip(Remove(Remove(v.s, ","), "w"))
       IN IF IsFloat(s) THEN IntOfFloat(s) ELSE 0

PriceCells ==
  {[kind |-> "na", val |-> 0, s |-> <<>>]}
  \cup {[kind |-> "num", val |-> n, s |-> <<>>] : n \in {0, 9000}}
  \cup {[kind |-> "str", val |-> 0, s |-> t] :
          t \in UNION {[1..n -> Alphabet] : n \in 0..MaxLen}}

\* load_products applies _parse_price to a price cell
Parse ==
  /\ ~pdone
  /\ pout' = parse_price(pin)
  /\ pdone' = TRUE
  /\ ev' = Ev("parse")
  /\ UNCHANGED <<session, view, footer, calls, pin>>

InitPrice ==
  /\ init_state
  /\ view = PlainView("load")
  /\ ev = Ev("init")
  /\ footer = "none"
  /\ calls = <<>>
  /\ pin \in PriceCells
  /\ pout = 0
  /\ pdone = FALSE

NextPrice == Parse

SpecPrice == InitPrice /\ [][NextPrice]_vars

(* ----------------------------- properties ------------------------------ *)

HasItems == DOMAIN cart # {}

RECURSIVE CartAfter(_)
CartAfter(cs) ==
  IF cs = <<>> THEN EmptyCart
  ELSE LET k == cs[Len(cs)]
       IN add_to_cart(CartAfter(SubSeq(cs, 1, Len(cs) - 1)),
                      k.name, k.price, k.img_url, k.qty)

Perms(n) == {f \in [1..n -> 1..n] : \A i, j \in 1..n : f[i] = f[j] => i = j}

\* the quantity the calls of a list accumulate for a name
RECURSIVE AccQty(_, _)
AccQty(cs, name) ==
  IF cs = <<>> THEN 0
  ELSE (IF Head(cs).name = name /\ Head(cs).qty > 0 THEN Head(cs).qty ELSE 0)
       + AccQty(Tail(cs), name)

RECURSIVE SumAcc(_, _, _)
SumAcc(c, cs, S) ==
  IF S = {} THEN 0
  ELSE LET n == CHOOSE x \in S : TRUE
       IN c[n].price * AccQty(cs, n) + SumAcc(c, cs, S \ {n})

\* C2: after any list of add_to_cart calls from the empty cart, cart_total
\* is the sum over the distinct names of unit price times accumulated
\* quantity, and every permutation of the calls gives the same total.
C2_TotalOrderIndependent ==
  /\ cart_total(cart) = SumAcc(cart, calls, DOMAIN cart)
  /\ \A p \in Perms(Len(calls)) :
       cart_total(CartAfter([i \in 1..Len(calls) |-> calls[p[i]]])) = cart_total(cart)

LastCall == calls[Len(calls)]

\* C3: add_to_cart with qty <= 0 leaves the whole cart unchanged, whether
\* or not the name is present.
C3_NonPositiveQtyNoOp ==
  [][ (ev'.op = "add_to_cart" /\ calls'[Len(calls')].qty <= 0) => cart' = cart ]_vars

C3_Witness ==
  /\ Len(calls) = MaxCalls
  /\ LastCall.qty <= 0
  /\ LastCall.name \in DOMAIN cart
  /\ \E i \in 1..Len(calls) : calls[i].qty <= 0 /\ calls[i].name \notin DOMAIN cart

\* C4: on the shopping page the submit control is disabled exactly when
\* total > budget or total <= 0 (enabled iff 0 < total <= budget), and the
\* over-budget notice is shown exactly when total > budget.
C4_SubmitControl ==
  view.page = "shop" =>
    LET t == cart_total(cart)
    IN /\ view.submitDisabled <=> (t > budget \/ t <= 0)
       /\ ~view.submitDisabled <=> (0 < t /\ t <= budget)
       /\ view.overNotice <=> (t > budget)

C4_Witness ==
  /\ view.page = "shop"
  /\ view.overNotice
  /\ view.submitDisabled
  /\ cart_total(cart) > budget

\* a run that finds the shopping step with no mission active and no live button
NoMissionRun == step = "shop" /\ mission = None /\ ev'.op = "rerun"

\* C5 (as claimed): a restart from the result screen, and a run of the
\* shopping step with no active mission, reset every session field to the
\* value init_state gives it.
C5_FullReset ==
  [][ (ev'.op = "restart" \/ NoMissionRun) =>
        /\ step' = "start"
        /\ mission' = None
        /\ budget' = 0
        /\ cart' = EmptyCart
        /\ submitted' = FALSE
        /\ reasons' = <<>> ]_vars

\* C5 (amended): a restart sets step to selection, empties the cart and
\* unsets submitted, and leaves mission, budget and reasoning text as they
\* were; a run of the shopping step with no active mission sets step to
\* selection and leaves every other field as it was.
C5_PartialReset ==
  [][ /\ ev'.op = "restart" =>
           /\ step' = "start"
           /\ cart' = EmptyCart
           /\ submitted' = FALSE
           /\ UNCHANGED <<mission, budget, reasons>>
      /\ NoMissionRun =>
           /\ step' = "start"
           /\ UNCHANGED <<mission, budget, cart, submitted, reasons>> ]_vars

C5_Witness ==
  /\ ev.op = "restart"
  /\ step = "start"
  /\ mission # None
  /\ budget # 0
  /\ reasons # <<>>

C7_PickInitialises ==
  /\ []((step = "shop" /\ mission # None) => budget = MISSIONS[mission])
  /\ [][ ev'.op = "pick" =>
           /\ step' = "shop"
           /\ mission' = ev'.arg
           /\ budget' = MISSIONS[ev'.arg]
           /\ cart' = EmptyCart
           /\ submitted' = FALSE
           /\ reasons' = <<>> ]_vars

\* a pick that follows a finished round: a report was generated before
C7_Witness ==
  /\ ev.op = "pick"
  /\ footer # "none"
  /\ step = "shop"
  /\ budget = MISSIONS[mission]

IsStr == pin.kind = "str"
Chars(s) == {s[i] : i \in 1..Len(s)}
HasDigit(s) == Chars(s) \cap Digits # {}
IsDigit(ch) == ch \in Digits
DigitsValue(s) == DecValue(SelectSeq(s, IsDigit))
\* whitespace occurs only before the first or after the last other character
SpaceOnlyAround(s) ==
  \A i \in 1..Len(s) :
    s[i] = " " => \/ \A j \in 1..i : s[j] = " "
                  \/ \A j \in i..Len(s) : s[j] = " "
\* no whitespace between the first and the last digit
DigitsUnbroken(s) ==
  \A i, j, k \in 1..Len(s) :
    (i < j /\ j < k /\ IsDigit(s[i]) /\ IsDigit(s[k])) => s[j] # " "

\* C8 (as claimed): a string of digits mixed with currency decoration
\* (currency symbols or suffixes, thousands separators, surrounding
\* whitespace) parses to the integer its digits spell; a missing value or a
\* string without digits parses to 0.
C8_ParsesDecorated ==
  pdone =>
    /\ (IsStr /\ Chars(pin.s) \subseteq Digits \cup {",", "w", "$", " "}
          /\ HasDigit(pin.s) /\ SpaceOnlyAround(pin.s))
         => pout = DigitsValue(pin.s)
    /\ (pin.kind = "na" \/ (IsStr /\ ~HasDigit(pin.s))) => pout = 0

\* C8 (amended): a string of digits mixed only with the won suffix,
\* thousands separators and whitespace that does not separate two digits
\* parses to the integer its digits spell; a string holding any other
\* currency symbol parses to 0; a missing value or a string without digits
\* parses to 0.
C8_ParsesWonDecorated ==
  pdone =>
    /\ (IsStr /\ Chars(pin.s) \subseteq Digits \cup {",", "w", " "}
          /\ HasDigit(pin.s) /\ DigitsUnbroken(pin.s))
         => pout = DigitsValue(pin.s)
    /\ (IsStr /\ "$" \in Chars(pin.s)) => pout = 0
    /\ (pin.kind = "na" \/ (IsStr /\ ~HasDigit(pin.s))) => pout = 0

C8_Witness == pdone /\ IsStr /\ pin.s = <<"1", ",", "0">> /\ pout = 10

\* C9: in the result step 0 < total <= budget, so the remaining balance
\* given to make_result_image is never negative and the footer never uses
\* the negative colour.
C9_ResultWithinBudget ==
  /\ step = "result" => (0 < cart_total(cart) /\ cart_total(cart) <= budget)
  /\ footer # "red"

C9_Witness ==
  /\ step = "result"
  /\ ev.op = "png"
  /\ footer = "green"
  /\ cart_total(cart) = budget

\* C10: every cart entry has quantity >= 1, and a step that is not a clear,
\* a mission pick or a restart keeps every name in the cart, lowers no
\* quantity and leaves every unit price and image reference as first set.
C10_CartMonotone ==
  /\ [](\A n \in DOMAIN cart : cart[n].qty >= 1)
  /\ [][ ev'.op \notin {"clear", "pick", "restart"} =>
           /\ DOMAIN cart \subseteq DOMAIN cart'
           /\ \A n \in DOMAIN cart :
                /\ cart'[n].qty >= cart[n].qty
                /\ cart'[n].price = cart[n].price
                /\ cart'[n].img_url = cart[n].img_url ]_vars

\* the row ("A", 15000, "a2") added to an entry created from ("A", 9000, "a1")
C10_Witness ==
  /\ ev.op = "add"
  /\ "A" \in DOMAIN cart
  /\ cart["A"].qty = MaxQty
  /\ cart["A"].price = 9000
  /\ "Z" \in DOMAIN cart

====
